---- MODULE Spec2Model ----
(***************************************************************************)
(* Model of src/app.py: Google sign-in, session tokens and the per-user    *)
(* daily query quota kept in the Supabase table 'users'.                   *)
(*                                                                         *)
(* Every supabase ...execute() call is one atomic step on the shared       *)
(* table.  A request handler is an asyncio task of one worker process: the *)
(* supabase client is synchronous, so a handler keeps its worker's event   *)
(* loop from its first statement up to `await run_agent(...)` or its       *)
(* return; handlers of different worker processes interleave freely.       *)
(* The clock (datetime.utcnow()) may advance between any two steps.        *)
(***************************************************************************)
EXTENDS Integers, Sequences, FiniteSets, TLC

\* ---------------------------------------------------------------- bounds
NumWorkers == 2       \* worker processes serving the same table
TicksPerDay == 2      \* clock ticks in one UTC calendar day
MaxClock == 2         \* last clock value explored
MaxFaults == 1        \* persistence / agent failures injected in one run
MaxChats == 5         \* /chat requests admitted per subject and day in SpecSeq

\* ------------------------------------------------------- program constants
DAILY_LIMIT == 3

\* the request slots: two requests can be in flight at once
Requests == {1, 2}
Subjects == {"u1"}

VARIABLES
  db,          \* the 'users' table: a sequence of rows
  now,         \* datetime.utcnow(), in ticks
  req,         \* per request slot: the handler's position and locals
  tokenExp,    \* per subject: "exp" of the latest session token delivered (0: none)
  tokenIat,    \* history: the time create_jwt_token made that token
  faults,      \* failures injected so far
  grantsToday, \* history: agent invocations per subject on the current day
  resetToday,  \* history: a reset was persisted for the subject on the current day
  chatsToday,  \* history (SpecSeq): /chat requests admitted on the current day
  prevChats,   \* history (SpecSeq): /chat requests admitted on the previous day
  ord          \* history (SpecSeq): per slot, the ordinal of its /chat request

tokVars == <<tokenExp, tokenIat>>
histVars == <<grantsToday, resetToday>>
seqVars == <<chatsToday, prevChats, ord>>
vars == <<db, now, req, tokenExp, tokenIat, faults, grantsToday, resetToday,
          chatsToday, prevChats, ord>>

\* ------------------------------------------------------------ time, dates
NoDate == [day |-> -1, tod |-> -1]

\* datetime.utcnow().isoformat(): the date and the time of day of tick t
isoformat(t) == [day |-> t \div TicksPerDay, tod |-> t % TicksPerDay]

\* datetime.fromisoformat(s).date()
fromisoformat_date(s) == s.day

\* datetime.utcnow().date()
utc_date(t) == t \div TicksPerDay

\* ------------------------------------------------------- the users table
NoUser == [user_id |-> "", queries_used_today |-> -1, last_query_date |-> NoDate]

\* supabase.table('users').select('*').eq('user_id', uid).execute().data
Select(table, uid) == SelectSeq(table, LAMBDA row : row.user_id = uid)

\* supabase.table('users').update({...}).eq('user_id', uid).execute()
Update(table, uid, count, date) ==
  [i \in DOMAIN table |->
     IF table[i].user_id = uid
     THEN [table[i] EXCEPT !.queries_used_today = count, !.last_query_date = date]
     ELSE table[i]]

\* user_id is the table's primary key: an insert of a present key is refused
PrimaryKeyConflict(table, uid) == Select(table, uid) # <<>>

\* (mutant) a new user is stamped with the day of its creation
new_user_Stamped(uid) ==
  [user_id |-> uid, queries_used_today |-> 0, last_query_date |-> isoformat(now)]

\* the row get_or_create_user inserts
new_user(uid) ==
  [user_id |-> uid, queries_used_today |-> 0, last_query_date |-> NoDate]

\* supabase.table('users').insert(new_user).execute()
Insert(table, row) == Append(table, row)

\* ------------------------------------------------------- identity assertion
Forms == {"ok", "malformed", "bad_signature", "expired"}
Issuers == {"accounts.google.com", "https://accounts.google.com", "evil.example"}
Assertions ==
  {a \in [form : Forms, iss : Issuers, sub : Subjects] :
     a.form = "ok" \/ a.iss = "accounts.google.com"}

\* (mutant) the issuer of a verified assertion is not looked at
verify_google_token_AnyIssuer(a) ==
  IF a.form # "ok" THEN [ok |-> FALSE, status |-> 401, user_id |-> ""]
  ELSE [ok |-> TRUE, status |-> 0, user_id |-> a.sub]

\* verify_google_token: the library rejects what it cannot verify, the code
\* rejects an issuer outside the two Google ones; every failure is a 401
verify_google_token(a) ==
  IF a.form # "ok" THEN [ok |-> FALSE, status |-> 401, user_id |-> ""]
  ELSE IF a.iss \notin {"accounts.google.com", "https://accounts.google.com"}
       THEN [ok |-> FALSE, status |-> 401, user_id |-> ""]
       ELSE [ok |-> TRUE, status |-> 0, user_id |-> a.sub]

\* ------------------------------------------------------------ session token
\* (mutant) the token lives one tick less than a day
create_jwt_token_Short(uid, t) ==
  [sub |-> uid, exp |-> t + TicksPerDay - 1, signed |-> TRUE]

\* create_jwt_token: exp = utcnow() + timedelta(days=1), signed with JWT_SECRET
create_jwt_token(uid, t) == [sub |-> uid, exp |-> t + TicksPerDay, signed |-> TRUE]

\* verify_jwt_token: jwt.decode checks the signature, then the expiry
verify_jwt_token(tok, t) ==
  IF ~tok.signed THEN [ok |-> FALSE, status |-> 401, detail |-> "Invalid token"]
  ELSE IF t >= tok.exp
       THEN [ok |-> FALSE, status |-> 401, detail |-> "Token has expired"]
       ELSE [ok |-> TRUE, status |-> 0, detail |-> ""]

\* the credentials a client can present for subject u: the latest token this
\* service issued to u, or a token not signed with JWT_SECRET
Credentials(u) ==
  {[sub |-> u, exp |-> 0, signed |-> FALSE]} \cup
  (IF tokenExp[u] = 0 THEN {} ELSE {[sub |-> u, exp |-> tokenExp[u], signed |-> TRUE]})

\* ------------------------------------------------------------ request slots
IdleReq ==
  [kind |-> "none", pc |-> "idle", sub |-> "", cred |-> "none",
   status |-> 0, token |-> 0, iat |-> -1, remaining |-> -1, cur |-> -1,
   snap |-> NoUser, raised |-> 0, ran |-> FALSE, out |-> -1, at |-> -1]

\* the worker process that serves slot r
WorkerOf(r) == ((r - 1) % NumWorkers) + 1

\* positions at which a handler does not hold its worker's event loop: no
\* request, suspended in `await run_agent(...)`, response sent
Parked == {"idle", "agent", "done"}

\* no response is waiting to be sent: sending one is a step of its own that
\* touches nothing shared, taken before any other step
Ready == \A r \in Requests : req[r].pc # "done"

\* slot r is free and its worker's event loop can start a handler
CanStart(r) ==
  /\ Ready
  /\ req[r].pc = "idle"
  /\ \A r2 \in Requests \ {r} :
       WorkerOf(r2) = WorkerOf(r) => req[r2].pc \in Parked

\* check_daily_limit returns v to its endpoint: /chat goes on to the increment,
\* /auth/google and /auth/profile build their response
ReturnFromCheck(q, v) ==
  IF q.kind = "chat"
  THEN [q EXCEPT !.pc = "inc_read", !.remaining = v]
  ELSE [q EXCEPT !.pc = "done", !.status = 200, !.remaining = v, !.out = v]

\* check_daily_limit raises HTTPException(code): google_auth and chat_with_agent
\* re-raise it (except HTTPException: raise), get_user_profile has only
\* `except Exception` and answers 500
RaiseFromCheck(q, code) ==
  [q EXCEPT !.pc = "done", !.raised = code,
            !.status = IF q.kind = "profile" THEN 500 ELSE code]

\* (mutant) the limit test lets a count of exactly DAILY_LIMIT through
QuotaReached_OffByOne(queries_used) == queries_used > DAILY_LIMIT

\* check_daily_limit: `if queries_used >= 3`
QuotaReached(queries_used) == queries_used >= DAILY_LIMIT

\* increment_query_count: new_count = current_count + 1
new_count(current_count) == current_count + 1

\* the day-rollover test of check_daily_limit
FreshDay(user, t) ==
  \/ user.last_query_date = NoDate
  \/ fromisoformat_date(user.last_query_date) # utc_date(t)

\* the endpoint has its response: a delivered session token becomes usable
Deliver(q) ==
  IF q.kind = "auth" /\ q.pc = "done" /\ q.status = 200
  THEN /\ tokenExp' = [tokenExp EXCEPT ![q.sub] = q.token]
       /\ tokenIat' = [tokenIat EXCEPT ![q.sub] = q.iat]
  ELSE UNCHANGED tokVars

Init ==
  /\ db = <<>>
  /\ now = 0
  /\ req = [r \in Requests |-> IdleReq]
  /\ tokenExp = [u \in Subjects |-> 0]
  /\ tokenIat = [u \in Subjects |-> -1]
  /\ faults = 0
  /\ grantsToday = [u \in Subjects |-> 0]
  /\ resetToday = [u \in Subjects |-> FALSE]
  /\ chatsToday = [u \in Subjects |-> 0]
  /\ prevChats = [u \in Subjects |-> 0]
  /\ ord = [r \in Requests |-> 0]

\* ------------------------------------------------------- POST /auth/google
\* what the client sent, for the record: "genuine" is a well-formed, correctly
\* signed, unexpired assertion of a Google issuer
AssertionClass(a) ==
  IF a.form # "ok" THEN a.form
  ELSE IF a.iss = "evil.example" THEN "untrusted_issuer" ELSE "genuine"

\* google_auth up to verify_google_token
GoogleAuthStart(r, a) ==
  /\ CanStart(r)
  /\ LET v == verify_google_token(a)
     IN req' = [req EXCEPT ![r] =
          IF v.ok
          THEN [IdleReq EXCEPT !.kind = "auth", !.pc = "goc_read",
                               !.sub = v.user_id, !.cred = AssertionClass(a)]
          ELSE [IdleReq EXCEPT !.kind = "auth", !.pc = "done",
                               !.cred = AssertionClass(a), !.status = v.status]]
  /\ UNCHANGED <<db, now, tokVars, faults, histVars, seqVars>>

\* get_or_create_user: the select; a found user is returned and google_auth
\* makes the token
GetOrCreateRead(r) ==
  /\ Ready
  /\ req[r].pc = "goc_read"
  /\ LET q == req[r]
         tok == create_jwt_token(q.sub, now)
     IN req' = [req EXCEPT ![r] =
          IF Select(db, q.sub) # <<>>
          THEN [q EXCEPT !.pc = "check_read", !.token = tok.exp, !.iat = now]
          ELSE [q EXCEPT !.pc = "goc_insert"]]
  /\ UNCHANGED <<db, now, tokVars, faults, histVars, seqVars>>

\* get_or_create_user: the insert of the new user; then the token
GetOrCreateInsert(r) ==
  /\ Ready
  /\ req[r].pc = "goc_insert"
  /\ LET q == req[r]
         tok == create_jwt_token(q.sub, now)
     IN IF PrimaryKeyConflict(db, q.sub)
        THEN /\ req' = [req EXCEPT ![r] = [q EXCEPT !.pc = "done", !.status = 500]]
             /\ db' = db
        ELSE /\ req' = [req EXCEPT ![r] =
                  [q EXCEPT !.pc = "check_read", !.token = tok.exp, !.iat = now]]
             /\ db' = Insert(db, new_user(q.sub))
  /\ UNCHANGED <<now, tokVars, faults, histVars, seqVars>>

\* get_or_create_user: the select or the insert raises ("Database error", 500)
GetOrCreateFail(r) ==
  /\ Ready
  /\ req[r].pc \in {"goc_read", "goc_insert"}
  /\ faults < MaxFaults
  /\ faults' = faults + 1
  /\ req' = [req EXCEPT ![r] = [req[r] EXCEPT !.pc = "done", !.status = 500]]
  /\ UNCHANGED <<db, now, tokVars, histVars, seqVars>>

\* ---------------------------------------------------------- check_daily_limit
\* (mutant) every check stamps the row it read with the time of the check
CheckRead_Touch(r) ==
  /\ Ready
  /\ req[r].pc = "check_read"
  /\ LET q == req[r]
         rows == Select(db, q.sub)
         user == rows[1]
         queries_used == user.queries_used_today
         q2 == IF rows = <<>> THEN RaiseFromCheck(q, 500)
               ELSE IF FreshDay(user, now) THEN [q EXCEPT !.pc = "reset_write"]
               ELSE IF QuotaReached(queries_used) THEN RaiseFromCheck(q, 429)
               ELSE ReturnFromCheck(q, DAILY_LIMIT - queries_used)
     IN /\ req' = [req EXCEPT ![r] = q2]
        /\ Deliver(q2)
        /\ db' = IF rows = <<>> THEN db
                 ELSE Update(db, q.sub, queries_used, isoformat(now))
  /\ UNCHANGED <<now, faults, histVars, seqVars>>

\* check_daily_limit: the select, the day test and the same-day branches
CheckRead(r) ==
  /\ Ready
  /\ req[r].pc = "check_read"
  /\ LET q == req[r]
         rows == Select(db, q.sub)
         user == rows[1]
         queries_used == user.queries_used_today
         q2 == IF rows = <<>> THEN RaiseFromCheck(q, 500)
               ELSE IF FreshDay(user, now) THEN [q EXCEPT !.pc = "reset_write"]
               ELSE IF QuotaReached(queries_used) THEN RaiseFromCheck(q, 429)
               ELSE ReturnFromCheck(q, DAILY_LIMIT - queries_used)
     IN /\ req' = [req EXCEPT ![r] = q2]
        /\ Deliver(q2)
  /\ UNCHANGED <<db, now, faults, histVars, seqVars>>

\* check_daily_limit: the select raises; `except Exception` answers 500
CheckReadFail(r) ==
  /\ Ready
  /\ req[r].pc = "check_read"
  /\ faults < MaxFaults
  /\ faults' = faults + 1
  /\ req' = [req EXCEPT ![r] = RaiseFromCheck(req[r], 500)]
  /\ UNCHANGED <<db, now, tokVars, histVars, seqVars>>

\* reset_daily_queries: the update; check_daily_limit returns 3
ResetWrite(r) ==
  /\ Ready
  /\ req[r].pc = "reset_write"
  /\ LET q == req[r]
         q2 == ReturnFromCheck(q, DAILY_LIMIT)
     IN /\ db' = Update(db, q.sub, 0, isoformat(now))
        /\ req' = [req EXCEPT ![r] = q2]
        /\ Deliver(q2)
        /\ resetToday' = [resetToday EXCEPT ![q.sub] = TRUE]
  /\ UNCHANGED <<now, faults, grantsToday, seqVars>>

\* reset_daily_queries: the update raises, the error is logged and dropped;
\* check_daily_limit returns 3 all the same
ResetFail(r) ==
  /\ Ready
  /\ req[r].pc = "reset_write"
  /\ faults < MaxFaults
  /\ faults' = faults + 1
  /\ LET q == req[r]
         q2 == ReturnFromCheck(q, DAILY_LIMIT)
     IN /\ req' = [req EXCEPT ![r] = q2]
        /\ Deliver(q2)
  /\ UNCHANGED <<db, now, histVars, seqVars>>

\* ------------------------------------------------------ increment_query_count
\* chat_with_agent reaches `await run_agent(...)`: the agent is invoked
InvokeAgent(q) == [q EXCEPT !.pc = "agent", !.ran = TRUE]

Granted(u) == grantsToday' = [grantsToday EXCEPT ![u] = @ + 1]

\* (mutant) the increment tests the limit again on the count it reads
IncRead_Recheck(r) ==
  /\ Ready
  /\ req[r].pc = "inc_read"
  /\ LET q == req[r]
         rows == Select(db, q.sub)
     IN req' = [req EXCEPT ![r] =
          IF rows # <<>> /\ rows[1].queries_used_today >= DAILY_LIMIT
          THEN [q EXCEPT !.pc = "done", !.status = 429]
          ELSE [q EXCEPT !.pc = "inc_write", !.cur = rows[1].queries_used_today]]
  /\ UNCHANGED <<db, now, tokVars, faults, histVars, seqVars>>

\* increment_query_count: the select
IncRead(r) ==
  /\ Ready
  /\ req[r].pc = "inc_read"
  /\ LET q == req[r]
         rows == Select(db, q.sub)
     IN IF rows = <<>>
        THEN /\ req' = [req EXCEPT ![r] = InvokeAgent(q)]
             /\ Granted(q.sub)
        ELSE /\ req' = [req EXCEPT ![r] =
                  [q EXCEPT !.pc = "inc_write", !.cur = rows[1].queries_used_today]]
             /\ UNCHANGED grantsToday
  /\ UNCHANGED <<db, now, tokVars, faults, resetToday, seqVars>>

\* increment_query_count: the update of (current_count + 1, utcnow()); then
\* chat_with_agent invokes the agent
IncWrite(r) ==
  /\ Ready
  /\ req[r].pc = "inc_write"
  /\ LET q == req[r]
     IN /\ db' = Update(db, q.sub, new_count(q.cur), isoformat(now))
        /\ req' = [req EXCEPT ![r] = InvokeAgent(q)]
        /\ Granted(q.sub)
  /\ UNCHANGED <<now, tokVars, faults, resetToday, seqVars>>

\* (mutant) an error inside increment_query_count reaches chat_with_agent,
\* whose `except Exception` answers 500
IncrementFail_Raises(r) ==
  /\ Ready
  /\ req[r].pc \in {"inc_read", "inc_write"}
  /\ faults < MaxFaults
  /\ faults' = faults + 1
  /\ req' = [req EXCEPT ![r] = [req[r] EXCEPT !.pc = "done", !.status = 500]]
  /\ UNCHANGED <<db, now, tokVars, histVars, seqVars>>

\* increment_query_count: the select or the update raises, the error is logged
\* and dropped; chat_with_agent invokes the agent all the same
IncrementFail(r) ==
  /\ Ready
  /\ req[r].pc \in {"inc_read", "inc_write"}
  /\ faults < MaxFaults
  /\ faults' = faults + 1
  /\ req' = [req EXCEPT ![r] = InvokeAgent(req[r])]
  /\ Granted(req[r].sub)
  /\ UNCHANGED <<db, now, tokVars, resetToday, seqVars>>

\* --------------------------------------------------------- GET /auth/profile
\* a handler behind Depends(verify_jwt_token) starts: the credential is checked,
\* a rejected one ends the request with its 401
Admit(kind, first, tok) ==
  LET v == verify_jwt_token(tok, now)
  IN IF v.ok
     THEN [IdleReq EXCEPT !.kind = kind, !.pc = first,
                          !.sub = tok.sub, !.cred = "valid"]
     ELSE [IdleReq EXCEPT !.kind = kind, !.pc = "done",
                          !.cred = v.detail, !.status = v.status,
                          !.token = tok.exp, !.at = now]

ProfileStart(r, tok) ==
  /\ CanStart(r)
  /\ req' = [req EXCEPT ![r] = Admit("profile", "prof_read", tok)]
  /\ UNCHANGED <<db, now, tokVars, faults, histVars, seqVars>>

\* get_user_profile: the select of the user, kept for the response
ProfileRead(r) ==
  /\ Ready
  /\ req[r].pc = "prof_read"
  /\ LET q == req[r]
         rows == Select(db, q.sub)
     IN req' = [req EXCEPT ![r] =
          IF rows = <<>>
          THEN [q EXCEPT !.pc = "done", !.status = 500]
          ELSE [q EXCEPT !.pc = "check_read", !.snap = rows[1]]]
  /\ UNCHANGED <<db, now, tokVars, faults, histVars, seqVars>>

\* get_user_profile: the select raises; `except Exception` answers 500
ProfileReadFail(r) ==
  /\ Ready
  /\ req[r].pc = "prof_read"
  /\ faults < MaxFaults
  /\ faults' = faults + 1
  /\ req' = [req EXCEPT ![r] = [req[r] EXCEPT !.pc = "done", !.status = 500]]
  /\ UNCHANGED <<db, now, tokVars, histVars, seqVars>>

\* ----------------------------------------------------------------- POST /chat
\* (mutant) an admitted /chat request goes to the increment without the check
ChatStartCore_NoCheck(r, tok) ==
  /\ CanStart(r)
  /\ req' = [req EXCEPT ![r] = Admit("chat", "inc_read", tok)]
  /\ UNCHANGED <<db, now, tokVars, faults, histVars>>

\* chat_with_agent behind Depends(verify_jwt_token), up to check_daily_limit
ChatStartCore(r, tok) ==
  /\ CanStart(r)
  /\ req' = [req EXCEPT ![r] = Admit("chat", "check_read", tok)]
  /\ UNCHANGED <<db, now, tokVars, faults, histVars>>

ChatStart(r, tok) ==
  /\ ChatStartCore(r, tok)
  /\ UNCHANGED seqVars

\* run_agent returns: the response carries queries_remaining - 1
AgentReturn(r) ==
  /\ Ready
  /\ req[r].pc = "agent"
  /\ req' = [req EXCEPT ![r] =
       [req[r] EXCEPT !.pc = "done", !.status = 200, !.out = req[r].remaining - 1]]
  /\ UNCHANGED <<db, now, tokVars, faults, histVars, seqVars>>

\* (mutant) a failed agent run gives the usage back before answering 500
AgentFail_Refund(r) ==
  /\ Ready
  /\ req[r].pc = "agent"
  /\ faults < MaxFaults
  /\ faults' = faults + 1
  /\ req' = [req EXCEPT ![r] = [req[r] EXCEPT !.pc = "done", !.status = 500]]
  /\ db' = IF req[r].cur >= 0
           THEN Update(db, req[r].sub, req[r].cur,
                       Select(db, req[r].sub)[1].last_query_date)
           ELSE db
  /\ UNCHANGED <<now, tokVars, histVars, seqVars>>

\* run_agent raises: `except Exception` answers 500
AgentFail(r) ==
  /\ Ready
  /\ req[r].pc = "agent"
  /\ faults < MaxFaults
  /\ faults' = faults + 1
  /\ req' = [req EXCEPT ![r] = [req[r] EXCEPT !.pc = "done", !.status = 500]]
  /\ UNCHANGED <<db, now, tokVars, histVars, seqVars>>

\* the request is aborted while run_agent is awaited (client gone, server
\* shutting down): CancelledError is not an Exception, no clause of
\* chat_with_agent catches it, the handler ends without a response (status 0)
AgentCancelled(r) ==
  /\ Ready
  /\ req[r].pc = "agent"
  /\ req' = [req EXCEPT ![r] = [req[r] EXCEPT !.pc = "done", !.status = 0]]
  /\ UNCHANGED <<db, now, tokVars, faults, histVars, seqVars>>

\* the response is sent and the slot is free for the next request
Finish(r) ==
  /\ req[r].pc = "done"
  /\ req' = [req EXCEPT ![r] = IdleReq]
  /\ UNCHANGED <<db, now, tokVars, faults, histVars, seqVars>>

\* ---------------------------------------------------------------- the clock
NewDay == utc_date(now + 1) # utc_date(now)

TickCore ==
  /\ Ready
  /\ now < MaxClock
  /\ now' = now + 1
  /\ IF NewDay
     THEN /\ grantsToday' = [u \in Subjects |-> 0]
          /\ resetToday' = [u \in Subjects |-> FALSE]
     ELSE UNCHANGED histVars
  /\ UNCHANGED <<db, req, tokVars, faults>>

Tick ==
  /\ TickCore
  /\ UNCHANGED seqVars

\* ------------------------------------------------------------ specification
Next ==
  \/ \E r \in Requests, a \in Assertions : GoogleAuthStart(r, a)
  \/ \E r \in Requests : GetOrCreateRead(r)
  \/ \E r \in Requests : GetOrCreateInsert(r)
  \/ \E r \in Requests : GetOrCreateFail(r)
  \/ \E r \in Requests, u \in Subjects :
       \E tok \in Credentials(u) : ProfileStart(r, tok)
  \/ \E r \in Requests : ProfileRead(r)
  \/ \E r \in Requests : ProfileReadFail(r)
  \/ \E r \in Requests, u \in Subjects :
       \E tok \in Credentials(u) : ChatStart(r, tok)
  \/ \E r \in Requests : CheckRead(r)
  \/ \E r \in Requests : CheckReadFail(r)
  \/ \E r \in Requests : ResetWrite(r)
  \/ \E r \in Requests : ResetFail(r)
  \/ \E r \in Requests : IncRead(r)
  \/ \E r \in Requests : IncWrite(r)
  \/ \E r \in Requests : IncrementFail(r)
  \/ \E r \in Requests : AgentReturn(r)
  \/ \E r \in Requests : AgentFail(r)
  \/ \E r \in Requests : AgentCancelled(r)
  \/ \E r \in Requests : Finish(r)
  \/ Tick

Spec == Init /\ [][Next]_vars

\* ------------------------------------------------------------------------
\* SpecSeq: one client at a time, nothing fails.  A request is sent only when
\* no other is in flight, the calendar day changes only between requests, and
\* no select, update, insert or agent run raises.
AllIdle == \A r \in Requests : req[r].pc = "idle"

SeqGoogleAuthStart(r, a) ==
  /\ AllIdle
  /\ GoogleAuthStart(r, a)

SeqProfileStart(r, tok) ==
  /\ AllIdle
  /\ ProfileStart(r, tok)

\* history: an admitted /chat request is the k-th of its subject's day
SeqChatStart(r, tok) ==
  /\ AllIdle
  /\ chatsToday[tok.sub] < MaxChats
  /\ ChatStartCore(r, tok)
  /\ IF verify_jwt_token(tok, now).ok
     THEN /\ chatsToday' = [chatsToday EXCEPT ![tok.sub] = @ + 1]
          /\ ord' = [ord EXCEPT ![r] = chatsToday[tok.sub] + 1]
     ELSE /\ chatsToday' = chatsToday
          /\ ord' = [ord EXCEPT ![r] = 0]
  /\ UNCHANGED prevChats

SeqTick ==
  /\ AllIdle
  /\ TickCore
  /\ IF NewDay
     THEN /\ prevChats' = chatsToday
          /\ chatsToday' = [u \in Subjects |-> 0]
     ELSE UNCHANGED <<prevChats, chatsToday>>
  /\ UNCHANGED ord

NextSeq ==
  \/ \E r \in Requests, a \in Assertions : SeqGoogleAuthStart(r, a)
  \/ \E r \in Requests : GetOrCreateRead(r)
  \/ \E r \in Requests : GetOrCreateInsert(r)
  \/ \E r \in Requests, u \in Subjects :
       \E tok \in Credentials(u) : SeqProfileStart(r, tok)
  \/ \E r \in Requests : ProfileRead(r)
  \/ \E r \in Requests, u \in Subjects :
       \E tok \in Credentials(u) : SeqChatStart(r, tok)
  \/ \E r \in Requests : CheckRead(r)
  \/ \E r \in Requests : ResetWrite(r)
  \/ \E r \in Requests : IncRead(r)
  \/ \E r \in Requests : IncWrite(r)
  \/ \E r \in Requests : AgentReturn(r)
  \/ \E r \in Requests : Finish(r)
  \/ SeqTick

SpecSeq == Init /\ [][NextSeq]_vars

\* ------------------------------------------------------------------------
\* C1 (as claimed): in every reachable state every stored queries_used_today
\* is in 0..DAILY_LIMIT.
C1_CountWithinLimit ==
  \A i \in DOMAIN db :
    db[i].queries_used_today >= 0 /\ db[i].queries_used_today <= DAILY_LIMIT

\* C2: with one client at a time and no failure, the k-th admitted /chat
\* request of a day answers 200 with queries_remaining = DAILY_LIMIT - k and
\* runs the agent while k <= DAILY_LIMIT, and answers 429 without running the
\* agent beyond that; the count starts again at k = 1 on the next day.
C2_SequentialDay ==
  \A r \in Requests :
    (req[r].kind = "chat" /\ req[r].pc = "done" /\ req[r].cred = "valid") =>
      IF ord[r] <= DAILY_LIMIT
      THEN req[r].status = 200 /\ req[r].out = DAILY_LIMIT - ord[r] /\ req[r].ran
      ELSE req[r].status = 429 /\ ~req[r].ran

\* C2 witness: after a day with a rejected fourth request, the first /chat of
\* the next day has answered 200 with queries_remaining = 2.
C2_NextDayFirstChat ==
  \E r \in Requests :
    /\ req[r].kind = "chat" /\ req[r].pc = "done" /\ ord[r] = 1
    /\ req[r].status = 200 /\ req[r].out = 2
    /\ utc_date(now) >= 1
    /\ prevChats[req[r].sub] > DAILY_LIMIT

\* the stored row of subject u (when there is one)
Row(table, u) == Select(table, u)[1]

\* slot r takes a step out of one of the positions `from`
Leaves(r, from) == req[r].pc \in from /\ req'[r].pc \notin from

\* C3: a /chat request that has passed check_daily_limit goes on to the
\* increment and to the agent whatever count is stored by then: no step of
\* increment_query_count rejects it.  (With the witness: two requests that both
\* read 2 are both granted, the fourth grant of the day.)
C3_NoRecheckAfterCheck ==
  [][\A r \in Requests :
       (req[r].kind = "chat" /\ Leaves(r, {"inc_read", "inc_write"})) =>
         /\ req'[r].pc \in {"inc_write", "agent"}
         /\ req'[r].pc = "agent" => req'[r].ran]_vars

\* C3 witness: two /chat requests of one subject each got queries_remaining = 1
\* from a same-day check (3 - 2), nothing failed, both are at the agent, and
\* the agent has been invoked more than DAILY_LIMIT times for the subject today.
C3_OverGrant ==
  \E r1, r2 \in Requests :
    /\ r1 # r2 /\ req[r1].sub = req[r2].sub
    /\ req[r1].kind = "chat" /\ req[r1].pc = "agent" /\ req[r1].remaining = 1
    /\ req[r2].kind = "chat" /\ req[r2].pc = "agent" /\ req[r2].remaining = 1
    /\ faults = 0
    /\ grantsToday[req[r1].sub] > DAILY_LIMIT

\* C4 (as claimed): on every day with a quota check the reset is persisted
\* exactly once: a reset is never written when one was already written that
\* day, nor over a row an increment stamped that day, and a check that comes
\* to its end (a value or a 429) leaves the day with its reset written.
C4_ResetExactlyOncePerDay ==
  [][\A r \in Requests :
       /\ (Leaves(r, {"reset_write"}) /\ faults' = faults) =>
            /\ ~resetToday[req[r].sub]
            /\ ~(/\ fromisoformat_date(Row(db, req[r].sub).last_query_date) = utc_date(now)
                 /\ Row(db, req[r].sub).queries_used_today >= 1)
       /\ (Leaves(r, {"check_read", "reset_write"}) /\ req'[r].raised # 500) =>
            resetToday'[req[r].sub]]_vars

\* C5 (as claimed): when check_daily_limit returns through the day-rollover
\* path it returns DAILY_LIMIT and the stored row then has
\* queries_used_today = 0 and last_query_date = today.
C5_RolloverPersistsReset ==
  [][\A r \in Requests :
       Leaves(r, {"reset_write"}) =>
         /\ req'[r].remaining = DAILY_LIMIT
         /\ Row(db', req[r].sub).queries_used_today = 0
         /\ fromisoformat_date(Row(db', req[r].sub).last_query_date) = utc_date(now')]_vars

C8_FailedSignInChangesNothing ==
  [][\A r \in Requests :
       (/\ req[r].pc = "idle" /\ req'[r].kind = "auth"
        /\ req'[r].cred # "genuine") =>
         /\ req'[r].pc = "done" /\ req'[r].status = 401 /\ req'[r].token = 0
         /\ db' = db
         /\ tokenExp' = tokenExp]_vars

\* C8 witness: a malformed assertion was answered 401 and there is no user
\* row and no token.
C8_MalformedRejected ==
  \E r \in Requests :
    /\ req[r].kind = "auth" /\ req[r].pc = "done" /\ req[r].cred = "malformed"
    /\ req[r].status = 401
    /\ db = <<>>
    /\ \A u \in Subjects : tokenExp[u] = 0

\* C9 (as claimed): a request whose quota check raised the 429 is answered 429.
C9_QuotaExceededIs429 ==
  \A r \in Requests :
    (req[r].pc = "done" /\ req[r].raised = 429) => req[r].status = 429

\* C11: a check_daily_limit call that finds the user's last_query_date to be
\* today writes nothing to the table; it raises the 429 exactly when the
\* stored queries_used_today is at least DAILY_LIMIT and otherwise returns
\* DAILY_LIMIT - queries_used_today.
C11_SameDayCheckIsPeek ==
  [][\A r \in Requests :
       (/\ Leaves(r, {"check_read"}) /\ faults' = faults
        /\ Select(db, req[r].sub) # <<>>
        /\ ~FreshDay(Row(db, req[r].sub), now)) =>
         LET used == Row(db, req[r].sub).queries_used_today
         IN /\ db' = db
            /\ IF used >= DAILY_LIMIT
               THEN req'[r].raised = 429 /\ req'[r].pc = "done"
               ELSE req'[r].raised = 0 /\ req'[r].remaining = DAILY_LIMIT - used]_vars

\* C11 witness: a /chat request got 1 = 3 - 2 from a check of a row stamped
\* today, and the row still holds 2 and today's date when the check is over.
C11_PeekReturned ==
  \E r \in Requests :
    /\ req[r].kind = "chat" /\ req[r].pc = "inc_read" /\ req[r].remaining = 1
    /\ Row(db, req[r].sub).queries_used_today = 2
    /\ fromisoformat_date(Row(db, req[r].sub).last_query_date) = utc_date(now)

\* C12: a /chat request moves session validation -> quota check (-> reset) ->
\* increment -> agent -> response and ends early only by a rejection or a
\* failure; the agent is invoked only by a step out of the increment, and
\* only for a request whose credential was accepted and whose check returned
\* an allowance (never after a 401 or a 429).
C12_ChatOrder ==
  /\ [](\A r \in Requests :
         req[r].ran =>
           /\ req[r].kind = "chat" /\ req[r].cred = "valid"
           /\ req[r].raised = 0 /\ req[r].remaining \in 1..DAILY_LIMIT)
  /\ [][LET Order == {<<"idle", "check_read">>, <<"idle", "done">>,
                      <<"check_read", "reset_write">>, <<"check_read", "inc_read">>,
                      <<"check_read", "done">>, <<"reset_write", "inc_read">>,
                      <<"inc_read", "inc_write">>, <<"inc_read", "agent">>,
                      <<"inc_write", "agent">>, <<"agent", "done">>}
         IN \A r \in Requests :
              /\ (req'[r].kind = "chat" /\ req'[r].pc # req[r].pc) =>
                   <<req[r].pc, req'[r].pc>> \in Order
              /\ (~req[r].ran /\ req'[r].ran) =>
                   req[r].pc \in {"inc_read", "inc_write"} /\ req'[r].pc = "agent"
              /\ req'[r].pc = "agent" => req'[r].ran]_vars

\* C12 witness: a /chat request is at the agent after its increment wrote
\* current_count + 1, while another /chat request of the same subject was
\* turned away with the 429 and never reached the agent.
C12_AgentAfterIncrement ==
  \E r1, r2 \in Requests :
    /\ req[r1].kind = "chat" /\ req[r1].pc = "agent" /\ req[r1].ran
    /\ req[r1].cur >= 0
    /\ Row(db, req[r1].sub).queries_used_today = req[r1].cur + 1
    /\ req[r2].kind = "chat" /\ req[r2].pc = "done" /\ req[r2].status = 429
    /\ ~req[r2].ran /\ req[r2].sub = req[r1].sub

\* C13: when the select or the update inside increment_query_count fails, the
\* table is left as it was and the request goes on to the agent; and a /chat
\* request whose agent run returns is answered 200 with queries_remaining - 1,
\* whether or not its increment was persisted.
C13_IncrementFailureIsSwallowed ==
  [][\A r \in Requests :
       /\ (Leaves(r, {"inc_read", "inc_write"}) /\ faults' # faults) =>
            /\ db' = db
            /\ req'[r].pc = "agent" /\ req'[r].ran
       /\ (Leaves(r, {"agent"}) /\ faults' = faults /\ req'[r].status # 0) =>
            /\ req'[r].pc = "done" /\ req'[r].status = 200
            /\ req'[r].out = req[r].remaining - 1
            /\ db' = db]_vars

\* C13 witness: a /chat request whose increment failed at the select (it never
\* learned a current count) was answered 200 after the agent ran, and the row
\* holds no charge for it: 0 used, as the day's reset left it.
C13_ServedWithoutCharge ==
  \E r \in Requests :
    /\ req[r].kind = "chat" /\ req[r].pc = "done" /\ req[r].status = 200
    /\ req[r].ran /\ req[r].cur = -1 /\ req[r].out = req[r].remaining - 1
    /\ Select(db, req[r].sub) # <<>>
    /\ Row(db, req[r].sub).queries_used_today = 0
    /\ faults = 1

\* C14: once a /chat request is at the agent (its increment is behind it), no
\* step of that request writes the table: a failed agent run ends the request
\* with 500, a cancelled one ends it without a response, a returned one with
\* 200, and the stored count and date are the same after the step as before.
C14_NoRefund ==
  [][\A r \in Requests :
       (req[r].kind = "chat" /\ Leaves(r, {"agent"})) =>
         /\ db' = db
         /\ req'[r].pc = "done"
         /\ faults' # faults => req'[r].status = 500
         /\ faults' = faults => req'[r].status \in {0, 200}]_vars

\* C14 witness: a /chat request wrote current_count + 1, its agent run failed,
\* it was answered 500, and the row still holds current_count + 1.
C14_ChargedAndFailed ==
  \E r \in Requests :
    /\ req[r].kind = "chat" /\ req[r].pc = "done" /\ req[r].status = 500
    /\ req[r].ran /\ req[r].cur >= 0
    /\ Row(db, req[r].sub).queries_used_today = req[r].cur + 1
    /\ fromisoformat_date(Row(db, req[r].sub).last_query_date) = utc_date(now)

\* C15 (as claimed): while the row's last_query_date is absent or not today the
\* stored queries_used_today counts as 0, whatever it is: check_daily_limit
\* takes the rollover path, increment_query_count builds on a current count of
\* 0, and the /auth/profile read reports 0 queries used.
C15_StaleCountIsZero ==
  [][\A r \in Requests :
       LET stale == /\ Select(db, req[r].sub) # <<>>
                    /\ FreshDay(Row(db, req[r].sub), now)
                    /\ faults' = faults
       IN /\ (Leaves(r, {"check_read"}) /\ stale) => req'[r].pc = "reset_write"
          /\ (Leaves(r, {"inc_read"}) /\ stale) => req'[r].cur = 0
          /\ (Leaves(r, {"prof_read"}) /\ stale) =>
               req'[r].snap.queries_used_today = 0]_vars

\* C16 (as claimed): with no failure, whenever no request of a subject is in
\* flight and its row is stamped today, the stored queries_used_today is the
\* number of /chat requests granted to the subject today.
C16_EveryGrantCounted ==
  \A u \in Subjects :
    (/\ faults = 0
     /\ \A r \in Requests : req[r].sub # u
     /\ Select(db, u) # <<>>
     /\ fromisoformat_date(Row(db, u).last_query_date) = utc_date(now)) =>
      Row(db, u).queries_used_today = grantsToday[u]

\* C17 (as claimed): a /auth/google request with a genuine assertion that met
\* no database failure is answered 200 with a session token and the user's
\* queries_remaining, in every quota state; the quota check never turns the
\* sign-in into a 429.
C17_SignInIgnoresQuota ==
  \A r \in Requests :
    (/\ req[r].kind = "auth" /\ req[r].pc = "done"
     /\ req[r].cred = "genuine" /\ req[r].status # 500) =>
      /\ req[r].status = 200 /\ req[r].raised = 0
      /\ req[r].token # 0 /\ req[r].out \in 0..DAILY_LIMIT

\* C18 (as claimed): in every 200 response of /auth/profile,
\* queries_used_today + queries_remaining = DAILY_LIMIT.
C18_ProfileConsistent ==
  \A r \in Requests :
    (req[r].kind = "profile" /\ req[r].pc = "done" /\ req[r].status = 200) =>
      req[r].snap.queries_used_today + req[r].out = DAILY_LIMIT

====
